---- MODULE Spec2Model ----
(***************************************************************************)
(* WebWhisper (src/scanner.py): the domain-discovery pipeline.             *)
(*                                                                         *)
(*   - names are sequences of one-character strings, so that the           *)
(*     normalisation of fetch_from_crtsh is computed on characters;        *)
(*   - the store is the table seen_domains of the SQLite file, with its    *)
(*     two UNIQUE columns and SQLite's single write lock;                  *)
(*   - an invocation of main() is a process ("run") with a program         *)
(*     counter; two slots exist so that two invocations can overlap.       *)
(***************************************************************************)
EXTENDS Integers, Sequences, FiniteSets, TLC

VARIABLES
    \* ---- the store (webwhisper_db.db) and the network -------------------
    store,      \* committed rows of seen_domains: records [domain, fingerprint]
    wlock,      \* connection holding SQLite's write (RESERVED) lock, 0 = none
    faulty,     \* TRUE when the store can fail with an I/O error
    net,        \* domains that currently answer HTTP 200 on https or http
    \* ---- one invocation of main() per slot -----------------------------
    pc,         \* position of the invocation in main()
    count,      \* args.count
    verify,     \* verify_live
    mode,       \* "cache" | "fallback" | "normal": the branch main() takes
    pool,       \* the candidate pool collect_candidates returned
    store0,     \* the domains in the store when the invocation started
    cands,      \* candidates_list: the shuffled candidates not yet examined
    potential,  \* sample_new_domains: potential
    pending,    \* filter_live_domains: probes submitted and not completed
    liveList,   \* filter_live_domains: live_domains
    ret,        \* who called filter_live_domains
    walk,       \* the rest of the list the marking loop walks
    out,        \* sample_new_domains: out
    rows,       \* the rows of the last SELECT ... ORDER BY RANDOM()
    selected,   \* the sequence of domains the invocation returns
    outcome,    \* how the invocation ended
    kLive,      \* how many entries of potential were classified live
    nFresh,     \* how many entries of selected sample_new_domains returned
    wfail,      \* TRUE when an INSERT of this invocation raised a store error
    confirmed,  \* the domains a probe of this invocation classified live
    \* ---- history over invocations ---------------------------------------
    runsLeft,   \* invocations that may still start
    prevMode,   \* mode of the last invocation that ended before this one began
    prevResult, \* the domains that invocation returned
    overlap,    \* TRUE once an invocation started while another was running
    \* ---- N callers of mark_seen on one domain ---------------------------
    mDomain,    \* the domain they all insert
    mCallers,   \* the callers' connections
    mPc,        \* each caller's position in mark_seen
    mRet,       \* each caller's return value
    \* ---- collect_candidates ---------------------------------------------
    cPc,        \* position in collect_candidates
    cTlds,      \* its argument
    cUp,        \* what crt.sh answers for each suffix
    cIdx,       \* index of the next suffix
    cPool,      \* pool
    cTrace,     \* the queries issued and the delays slept, in order
    \* ---- the normalisation of one raw name ------------------------------
    nPc,        \* "raw" | "once" | "twice": how often it was applied
    nRaw,       \* the raw name, a line of a name_value
    nOnce,      \* what the normalisation makes of nRaw: {} or {name}
    nTwice,     \* what it makes of that name
    \* ---- one call of filter_live_domains --------------------------------
    fPc,        \* "run" | "done"
    fInput,     \* domains, its argument
    fAnswer,    \* what each domain answers on https and on http
    fState,     \* each future: "queued" | "running" | "finished" | "collected"
    fResult,    \* each future's result: is_live
    fLive       \* live_domains

storeVars == <<store, wlock, faulty, net>>
runVars == <<pc, count, verify, mode, pool, store0, cands, potential, pending,
             liveList, ret, walk, out, rows, selected, outcome, kLive, nFresh,
             wfail, confirmed>>
histVars == <<runsLeft, prevMode, prevResult, overlap>>
markVars == <<mDomain, mCallers, mPc, mRet>>
collectVars == <<cPc, cTlds, cUp, cIdx, cPool, cTrace>>
normVars == <<nPc, nRaw, nOnce, nTwice>>
filterVars == <<fPc, fInput, fAnswer, fState, fResult, fLive>>
vars == <<storeVars, runVars, histVars, markVars, collectVars, normVars,
          filterVars>>

----------------------------------------------------------------------------
(* Bounds of the model.                                                    *)

\* largest --count an invocation is started with
MaxCount == 2
\* invocations of main() in one behaviour of the sequential specification
MaxRuns == 2
\* most concurrent callers of mark_seen
MaxCallers == 3
\* longest raw name the normalisation is applied to
MaxRawLen == 5

----------------------------------------------------------------------------
(* Program constants.                                                      *)

MAX_RESULTS_FETCH == 3000
FETCH_MULTIPLIER == 3
MAX_WORKERS == 20

----------------------------------------------------------------------------
(* Sequences and characters.                                               *)

Min(a, b) == IF a < b THEN a ELSE b

Elems(s) == {s[i] : i \in DOMAIN s}

\* Python's s[:n] for n >= 0
Prefix(s, n) == SubSeq(s, 1, Min(n, Len(s)))

IsSpace(c) == c \in {" ", "\t", "\n", "\r"}

\* str.lower() on the alphabet of the model
LowerChar(c) ==
    CASE c = "A" -> "a"
      [] c = "B" -> "b"
      [] c = "C" -> "c"
      [] c = "D" -> "d"
      [] OTHER -> c

Lower(s) == [i \in DOMAIN s |-> LowerChar(s[i])]

\* str.strip(): leading and trailing whitespace removed
Strip(s) ==
    LET keep == {i \in DOMAIN s : ~IsSpace(s[i])}
    IN  IF keep = {} THEN <<>>
        ELSE LET lo == CHOOSE i \in keep : \A j \in keep : i <= j
                 hi == CHOOSE i \in keep : \A j \in keep : j <= i
             IN  SubSeq(s, lo, hi)

\* str.splitlines() for the line break "\n"
RECURSIVE SplitLines(_)
SplitLines(s) ==
    IF s = <<>> THEN <<>>
    ELSE LET brk == {i \in DOMAIN s : s[i] = "\n"}
         IN  IF brk = {} THEN <<s>>
             ELSE LET i == CHOOSE k \in brk : \A j \in brk : k <= j
                  IN  <<SubSeq(s, 1, i - 1)>> \o SplitLines(SubSeq(s, i + 1, Len(s)))

\* name.count(".")
CountDots(s) == Cardinality({i \in DOMAIN s : s[i] = "."})

StartsWithWildcard(s) == Len(s) >= 2 /\ s[1] = "*" /\ s[2] = "."

\* fetch_from_crtsh, the body of "for name in nv.splitlines()": the set of
\* names one raw line adds to domains (none when the line is rejected)
NormalizeName(raw) ==
    LET name == Lower(Strip(raw))
    IN  IF name = <<>> THEN {}
        ELSE LET bare == IF StartsWithWildcard(name)
                         THEN SubSeq(name, 3, Len(name)) ELSE name
             IN  IF CountDots(bare) < 1 THEN {} ELSE {bare}

\* the names of one entry's name_value (None and "" are skipped)
EntryNames(entry) ==
    IF entry.nv = <<>> THEN {}
    ELSE LET lines == SplitLines(entry.nv)
         IN  UNION {NormalizeName(lines[i]) : i \in DOMAIN lines}

\* fetch_from_crtsh, the loop over data: the first MAX_RESULTS_FETCH entries
ParseEntries(data) ==
    UNION {EntryNames(data[i]) :
             i \in {j \in DOMAIN data : j <= MAX_RESULTS_FETCH}}

\* entry.get raises on an entry that is no JSON object
ParseRaises(data) ==
    \E i \in DOMAIN data : i <= MAX_RESULTS_FETCH /\ ~data[i].isDict

\* fetch_from_crtsh(tld) against the answer resp of crt.sh:
\*   found   the set it returns (when it returns),
\*   raised  it let an exception escape,
\*   slept   time.sleep(SLEEP_BETWEEN_REQUESTS) was reached
FetchFromCrtsh(resp) ==
    CASE resp.kind = "transport" -> [found |-> {}, raised |-> FALSE, slept |-> FALSE]
      [] resp.kind = "non200"    -> [found |-> {}, raised |-> FALSE, slept |-> TRUE]
      [] resp.kind = "nonjson"   -> [found |-> {}, raised |-> FALSE, slept |-> TRUE]
      [] OTHER ->
           IF ParseRaises(resp.data)
           THEN [found |-> {}, raised |-> TRUE, slept |-> TRUE]
           ELSE [found |-> ParseEntries(resp.data), raised |-> FALSE, slept |-> TRUE]

\* the mutant: pool = found in place of pool.update(found)
PoolAfterFetchOverwrite(p, resp) == FetchFromCrtsh(resp).found

\* collect_candidates, one iteration of "for tld in tlds": pool after it
PoolAfterFetch(p, resp) ==
    LET f == FetchFromCrtsh(resp)
    IN  IF f.raised THEN p ELSE p \cup f.found

\* collect_candidates(tlds) against the answers up
RECURSIVE CollectFrom(_, _, _)
CollectFrom(tlds, up, p) ==
    IF tlds = <<>> THEN p
    ELSE CollectFrom(Tail(tlds), up, PoolAfterFetch(p, up[Head(tlds)]))

CollectCandidates(tlds, up) == CollectFrom(tlds, up, {})

----------------------------------------------------------------------------
(* The upstream the model queries: two suffixes and a few answers each.    *)

Entry(nv) == [isDict |-> TRUE, nv |-> nv]
NotAnObject == [isDict |-> FALSE, nv |-> <<>>]

Json(data) == [kind |-> "json", data |-> data]
Failure(kind) == [kind |-> kind, data |-> <<>>]

\* the normalized names the answers below hold
D_ac == <<"a", ".", "c">>
D_bd == <<"b", ".", "d">>
D_xy == <<"x", " ", "y", ".", "c">>
\* names earlier invocations may have left in the store
D_ec == <<"e", ".", "c">>
D_fd == <<"f", ".", "d">>

Tlds == {"c", "d"}

FailureKinds == {"transport", "non200", "nonjson"}

AnswersFor(tld) ==
    {Failure(k) : k \in FailureKinds} \cup
    IF tld = "c"
    THEN { Json(<<>>),
           Json(<<Entry(<<"A", ".", "C">>)>>),
           Json(<<Entry(<<"x", " ", "y", ".", "c">>), Entry(<<>>)>>),
           Json(<<Entry(<<"*", ".", "a", ".", "c", "\n", "x", " ", "y", ".", "c">>),
                  Entry(<<"c">>)>>),
           Json(<<Entry(<<"a", ".", "c">>), NotAnObject>>) }
    ELSE { Json(<<Entry(<<" ", "b", ".", "d", "\n">>)>>),
           Json(<<Entry(<<"b", "d">>)>>),
           Json(<<NotAnObject>>) }

Upstreams == {u \in [Tlds -> UNION {AnswersFor(t) : t \in Tlds}] :
                \A t \in Tlds : u[t] \in AnswersFor(t)}

TldLists == {<<>>, <<"c">>, <<"d">>, <<"c", "d">>, <<"d", "c">>, <<"c", "c">>}

\* answers that hold more names than an invocation is asked for
WideUpstream ==
    [t \in Tlds |->
       IF t = "c"
       THEN Json(<<Entry(<<"a", ".", "c", "\n", "*", ".", "e", ".", "c">>),
                  Entry(<<"x", " ", "y", ".", "c">>)>>)
       ELSE Json(<<Entry(<<"b", ".", "d">>), Entry(<<"F", ".", "D">>)>>)]

WidePools == {CollectCandidates(<<"c", "d">>, WideUpstream),
              CollectCandidates(<<"d">>, WideUpstream)}

\* every pool collect_candidates can hand to main()
CandidatePools == {CollectCandidates(t, u) : t \in TldLists, u \in Upstreams}

----------------------------------------------------------------------------
(* The store: table seen_domains, reached through one connection per       *)
(* process.                                                                *)

Runs == {1, 2}
NoConn == 0

CharCode(c) ==
    CASE c = "a" -> 1 [] c = "b" -> 2 [] c = "c" -> 3 [] c = "d" -> 4
      [] c = "e" -> 5 [] c = "f" -> 6 [] c = "x" -> 7 [] c = "y" -> 8
      [] c = "." -> 9 [] c = " " -> 10 [] c = "*" -> 11
      [] OTHER -> 12

\* hashlib.sha256(domain).hexdigest(): a digest of the characters. SHA-256 is
\* stood for by a digest that, like it, separates all names of the model
RECURSIVE Digest(_, _)
Digest(s, h) ==
    IF s = <<>> THEN h ELSE Digest(Tail(s), (h * 31 + CharCode(Head(s))) % 65536)

Fingerprint(d) == Digest(d, 7)

StoredDomains(st) == {rec.domain : rec \in st}

\* already_seen: SELECT 1 FROM seen_domains WHERE fingerprint = ?
AlreadySeen(st, d) == \E rec \in st : rec.fingerprint = Fingerprint(d)

\* the mutant: the table declared without its UNIQUE columns
InsertConflictNoUnique(st, d) == FALSE

\* the UNIQUE constraints of seen_domains, as an INSERT of d meets them
InsertConflict(st, d) ==
    \E rec \in st : rec.domain = d \/ rec.fingerprint = Fingerprint(d)

NextId(st) ==
    IF st = {} THEN 1
    ELSE 1 + (CHOOSE i \in {rec.id : rec \in st} : \A rec \in st : rec.id <= i)

\* the mutant: the table is rewritten with the new row alone
InsertRowTruncating(st, d) ==
    {[id |-> NextId(st), domain |-> d, fingerprint |-> Fingerprint(d)]}

\* the mutant: the row is never written
InsertRowLost(st, d) == st

\* INSERT INTO seen_domains (domain, fingerprint), committed
InsertRow(st, d) ==
    st \cup {[id |-> NextId(st), domain |-> d, fingerprint |-> Fingerprint(d)]}

\* the mutant: the INSERT is taken to succeed whatever the store holds
ExecInsertBlind(c, d) == "ok"

\* cur.execute(INSERT ...) of mark_seen on connection c:
\*   "locked"      another connection holds the write lock (OperationalError
\*                 once the busy timeout has run out),
\*   "constraint"  a UNIQUE column rejects the row (IntegrityError),
\*   "ok"          the row is written in c's transaction, to be committed
ExecInsert(c, d) ==
    IF wlock \notin {NoConn, c} THEN "locked"
    ELSE IF InsertConflict(store, d) THEN "constraint"
    ELSE "ok"

\* the write lock after the INSERT: the statement opened a transaction, which
\* mark_seen commits only when the INSERT succeeded
LockAfterInsert(c, o) == IF o \in {"ok", "constraint"} THEN c ELSE wlock

\* the store as a set of rows in insertion order d1, d2, ...
RECURSIVE StoreOf(_)
StoreOf(ds) == IF ds = <<>> THEN {} ELSE InsertRow(StoreOf(Prefix(ds, Len(ds) - 1)), ds[Len(ds)])

\* SELECT domain FROM seen_domains ORDER BY RANDOM() LIMIT n, n >= 0
RandomRows(st, n) ==
    LET m == Min(n, Cardinality(st))
    IN  {[i \in 1..m |-> f[i].domain] :
           f \in {g \in [1..m -> st] : \A i, j \in 1..m : i # j => g[i] # g[j]}}

----------------------------------------------------------------------------
(* N callers of mark_seen(conn, domain), each on a connection of its own.  *)

MarkIdle ==
    /\ mDomain = <<>>
    /\ mCallers = {}
    /\ mPc = <<>>
    /\ mRet = <<>>

\* cur.execute(INSERT ...) in caller c
CallerExecute(c) ==
    /\ c \in mCallers
    /\ mPc[c] = "call"
    /\ LET o == ExecInsert(c, mDomain)
       IN  /\ wlock' = LockAfterInsert(c, o)
           /\ IF o = "ok"
              THEN /\ mPc' = [mPc EXCEPT ![c] = "commit"]
                   /\ mRet' = mRet
              ELSE /\ mPc' = [mPc EXCEPT ![c] = "done"]
                   /\ mRet' = [mRet EXCEPT ![c] = "false"]
    /\ UNCHANGED <<store, faulty, net, mDomain, mCallers>>
    /\ UNCHANGED <<runVars, histVars, collectVars, normVars, filterVars>>

\* conn.commit(); return True
CallerCommit(c) ==
    /\ c \in mCallers
    /\ mPc[c] = "commit"
    /\ store' = InsertRow(store, mDomain)
    /\ wlock' = NoConn
    /\ mPc' = [mPc EXCEPT ![c] = "done"]
    /\ mRet' = [mRet EXCEPT ![c] = "true"]
    /\ UNCHANGED <<faulty, net, mDomain, mCallers>>
    /\ UNCHANGED <<runVars, histVars, collectVars, normVars, filterVars>>

----------------------------------------------------------------------------
(* One invocation of main(): sample_new_domains, filter_live_domains and   *)
(* the three branches of main().                                           *)

WeirdChars == {" ", "<", ">", "\\", "\"", "'"}

\* any(c in d for c in " <>\\\"'")
HasWeird(d) == \E i \in DOMAIN d : d[i] \in WeirdChars

\* the mutant: three times the count is collected, verification or not
FetchCountTripled(n, v) == n * FETCH_MULTIPLIER

\* the mutant: one candidate fewer than asked for is collected
FetchCountShort(n, v) == n * (IF v THEN FETCH_MULTIPLIER ELSE 1) - 1

\* fetch_count = count * fetch_multiplier
FetchCount(n, v) == n * (IF v THEN FETCH_MULTIPLIER ELSE 1)

\* the mutant: the sample is not oversampled
SampleLimitPlain(n, v) == n

\* the LIMIT of the SELECTs of main(): n * 3 if verify_live else n
SampleLimit(n, v) == IF v THEN n * 3 ELSE n

\* the mutant: the whole list is kept
TakeAll(s, n) == s

\* the slices domains[:count], cached_live[:need], rows[:need]
Take(s, n) == Prefix(s, n)

ProbeOutcomes == {"200", "other", "error"}

\* the mutant: only the https attempt is made
CheckDomainLiveHttpsOnly(https, http) == https = "200"

\* check_domain_live: https first, then http; live on the first status 200
CheckDomainLive(https, http) == https = "200" \/ http = "200"

\* the outcomes an INSERT can have beyond ExecInsert: an I/O error of the
\* store, when the store is failing
InsertErrors == IF faulty THEN {FALSE, TRUE} ELSE {FALSE}

\* the final output of main(): the file is written for a non-empty result
FinalOutcome(sel) == IF sel # <<>> THEN "saved" ELSE "no_live"

\* the mutant: the empty store is not told apart, and rows[0] is read
EmptyStoreOutcomeUnchecked(md) == "error"

\* the advisory of main() when the SELECT of the cache-only or fallback branch
\* returns no row
EmptyStoreOutcome(md) == IF md = "cache" THEN "db_empty" ELSE "db_empty_too"

\* the mutant: the list is handed on while probes are still running
BatchCompleteEarly(p) == TRUE

\* filter_live_domains returns once as_completed has yielded every future and
\* the executor has shut down: no probe of the batch is left
BatchComplete(p) == p = {}

\* the mutant: the sample of the backfill is never verified
VerifiesSampleNever(v, rws) == FALSE

\* main(), the backfill: "if verify_live and cached_domains"
VerifiesSample(v, rws) == v /\ rws # <<>>

RunIdle ==
    /\ pc = [r \in Runs |-> "idle"]
    /\ count = [r \in Runs |-> 0]
    /\ verify = [r \in Runs |-> FALSE]
    /\ mode = [r \in Runs |-> "none"]
    /\ pool = [r \in Runs |-> {}]
    /\ store0 = [r \in Runs |-> {}]
    /\ cands = [r \in Runs |-> {}]
    /\ potential = [r \in Runs |-> <<>>]
    /\ pending = [r \in Runs |-> {}]
    /\ liveList = [r \in Runs |-> <<>>]
    /\ ret = [r \in Runs |-> "none"]
    /\ walk = [r \in Runs |-> <<>>]
    /\ out = [r \in Runs |-> <<>>]
    /\ rows = [r \in Runs |-> <<>>]
    /\ selected = [r \in Runs |-> <<>>]
    /\ outcome = [r \in Runs |-> "none"]
    /\ kLive = [r \in Runs |-> 0]
    /\ nFresh = [r \in Runs |-> 0]
    /\ wfail = [r \in Runs |-> FALSE]
    /\ confirmed = [r \in Runs |-> {}]

\* the domains a probe of this invocation can reach
Probeable(p) == {d \in p : ~HasWeird(d)} \cup StoredDomains(store)

\* main() up to the branch it takes: the arguments, init_db, and
\* collect_candidates unless --use-cache-only is given
StartWith(r, pools) ==
    /\ pc[r] \in {"idle", "done"}
    /\ runsLeft > 0
    /\ runsLeft' = runsLeft - 1
    /\ prevMode' = IF pc[r] = "done" THEN mode[r] ELSE prevMode
    /\ prevResult' = IF pc[r] = "done" THEN Elems(selected[r]) ELSE prevResult
    /\ overlap' = (overlap \/ \E q \in Runs \ {r} : pc[q] \notin {"idle", "done"})
    /\ \E n \in 0..MaxCount, v \in BOOLEAN, co \in BOOLEAN, p \in pools :
         /\ co => p = {}
         /\ count' = [count EXCEPT ![r] = n]
         /\ verify' = [verify EXCEPT ![r] = v]
         /\ pool' = [pool EXCEPT ![r] = p]
         /\ cands' = [cands EXCEPT ![r] = p]
         /\ mode' = [mode EXCEPT ![r] =
                       IF co THEN "cache" ELSE IF p = {} THEN "fallback" ELSE "normal"]
         /\ pc' = [pc EXCEPT ![r] =
                     IF co THEN "cache" ELSE IF p = {} THEN "fallback" ELSE "scan"]
         /\ \E live \in SUBSET Probeable(p) : net' = live
    /\ store0' = [store0 EXCEPT ![r] = StoredDomains(store)]
    /\ potential' = [potential EXCEPT ![r] = <<>>]
    /\ pending' = [pending EXCEPT ![r] = {}]
    /\ liveList' = [liveList EXCEPT ![r] = <<>>]
    /\ ret' = [ret EXCEPT ![r] = "none"]
    /\ walk' = [walk EXCEPT ![r] = <<>>]
    /\ out' = [out EXCEPT ![r] = <<>>]
    /\ rows' = [rows EXCEPT ![r] = <<>>]
    /\ selected' = [selected EXCEPT ![r] = <<>>]
    /\ outcome' = [outcome EXCEPT ![r] = "running"]
    /\ kLive' = [kLive EXCEPT ![r] = 0]
    /\ nFresh' = [nFresh EXCEPT ![r] = 0]
    /\ wfail' = [wfail EXCEPT ![r] = FALSE]
    /\ confirmed' = [confirmed EXCEPT ![r] = {}]
    /\ UNCHANGED <<store, wlock, faulty>>
    /\ UNCHANGED <<markVars, collectVars, normVars, filterVars>>

\* main() against any answers of crt.sh for the suffixes c and d
Start(r) == StartWith(r, CandidatePools)

\* sample_new_domains, one iteration of "for d in candidates_list". The
\* shuffle is drawn as it is consumed: the next candidate is any one left
ScanStep(r) ==
    /\ pc[r] = "scan"
    /\ cands[r] # {}
    /\ Len(potential[r]) < FetchCount(count[r], verify[r])
    /\ \E d \in cands[r] :
         /\ cands' = [cands EXCEPT ![r] = @ \ {d}]
         /\ potential' = [potential EXCEPT ![r] =
                            IF AlreadySeen(store, d) \/ HasWeird(d)
                            THEN @ ELSE Append(@, d)]
    /\ UNCHANGED <<pc, count, verify, mode, pool, store0, pending, liveList, ret,
                   walk, out, rows, selected, outcome, kLive, nFresh, wfail,
                   confirmed>>
    /\ UNCHANGED <<storeVars, histVars, markVars, collectVars, normVars,
                   filterVars>>

\* already_seen raises on a failing store, and nothing in main() catches it
ScanCrash(r) ==
    /\ faulty
    /\ pc[r] = "scan"
    /\ cands[r] # {}
    /\ Len(potential[r]) < FetchCount(count[r], verify[r])
    /\ pc' = [pc EXCEPT ![r] = "done"]
    /\ outcome' = [outcome EXCEPT ![r] = "error"]
    /\ cands' = [cands EXCEPT ![r] = {}]
    /\ potential' = [potential EXCEPT ![r] = <<>>]
    /\ wlock' = IF wlock = r THEN NoConn ELSE wlock
    /\ UNCHANGED <<count, verify, mode, pool, store0, pending, liveList, ret,
                   walk, out, rows, selected, kLive, nFresh, wfail, confirmed>>
    /\ UNCHANGED <<store, faulty, net>>
    /\ UNCHANGED <<histVars, markVars, collectVars, normVars, filterVars>>

\* sample_new_domains, the end of the loop: filter_live_domains submits one
\* probe per entry of potential, or the marking loop walks potential itself
ScanEnd(r) ==
    /\ pc[r] = "scan"
    /\ cands[r] = {} \/ Len(potential[r]) >= FetchCount(count[r], verify[r])
    /\ cands' = [cands EXCEPT ![r] = {}]
    /\ IF verify[r] /\ potential[r] # <<>>
       THEN /\ pending' = [pending EXCEPT ![r] = Elems(potential[r])]
            /\ liveList' = [liveList EXCEPT ![r] = <<>>]
            /\ ret' = [ret EXCEPT ![r] = "mark"]
            /\ pc' = [pc EXCEPT ![r] = "verify"]
            /\ walk' = walk
       ELSE /\ walk' = [walk EXCEPT ![r] = potential[r]]
            /\ pc' = [pc EXCEPT ![r] = "mark"]
            /\ UNCHANGED <<pending, liveList, ret>>
    /\ UNCHANGED <<count, verify, mode, pool, store0, potential, out, rows,
                   selected, outcome, kLive, nFresh, wfail, confirmed>>
    /\ UNCHANGED <<storeVars, histVars, markVars, collectVars, normVars,
                   filterVars>>

\* filter_live_domains, one iteration of "for future in as_completed": a
\* probe completes, in any order, with what the two protocols answered
ProbeDone(r) ==
    /\ pc[r] = "verify"
    /\ \E d \in pending[r], https \in ProbeOutcomes, http \in ProbeOutcomes :
         /\ CheckDomainLive(https, http) <=> d \in net
         /\ pending' = [pending EXCEPT ![r] = @ \ {d}]
         /\ liveList' = [liveList EXCEPT ![r] =
                           IF CheckDomainLive(https, http) THEN Append(@, d) ELSE @]
         /\ confirmed' = [confirmed EXCEPT ![r] =
                            IF CheckDomainLive(https, http) THEN @ \cup {d} ELSE @]
    /\ UNCHANGED <<pc, count, verify, mode, pool, store0, cands, potential, ret,
                   walk, out, rows, selected, outcome, kLive, nFresh, wfail>>
    /\ UNCHANGED <<storeVars, histVars, markVars, collectVars, normVars,
                   filterVars>>

\* filter_live_domains returns live to sample_new_domains
MarkBegin(r) ==
    /\ pc[r] = "verify"
    /\ BatchComplete(pending[r])
    /\ ret[r] = "mark"
    /\ walk' = [walk EXCEPT ![r] = liveList[r]]
    /\ kLive' = [kLive EXCEPT ![r] = Len(liveList[r])]
    /\ liveList' = [liveList EXCEPT ![r] = <<>>]
    /\ ret' = [ret EXCEPT ![r] = "none"]
    /\ pc' = [pc EXCEPT ![r] = "mark"]
    /\ UNCHANGED <<count, verify, mode, pool, store0, cands, potential, pending,
                   out, rows, selected, outcome, nFresh, wfail, confirmed>>
    /\ UNCHANGED <<storeVars, histVars, markVars, collectVars, normVars,
                   filterVars>>

\* mark_seen(conn, d) up to cur.execute, for the next d of the marking loop;
\* every exception makes mark_seen return False, and d is skipped
MarkExecute(r) ==
    /\ pc[r] = "mark"
    /\ walk[r] # <<>>
    /\ Len(out[r]) < count[r]
    /\ \E err \in InsertErrors :
         LET o == IF err THEN "ioerror" ELSE ExecInsert(r, Head(walk[r]))
         IN  /\ wlock' = LockAfterInsert(r, o)
             /\ wfail' = [wfail EXCEPT ![r] = @ \/ o \in {"ioerror", "locked"}]
             /\ IF o = "ok"
                THEN /\ pc' = [pc EXCEPT ![r] = "commit"]
                     /\ walk' = walk
                ELSE /\ pc' = pc
                     /\ walk' = [walk EXCEPT ![r] = Tail(@)]
    /\ UNCHANGED <<count, verify, mode, pool, store0, cands, potential, pending,
                   liveList, ret, out, rows, selected, outcome, kLive, nFresh,
                   confirmed>>
    /\ UNCHANGED <<store, faulty, net>>
    /\ UNCHANGED <<histVars, markVars, collectVars, normVars, filterVars>>

\* conn.commit(); return True; out.append(d)
MarkCommit(r) ==
    /\ pc[r] = "commit"
    /\ store' = InsertRow(store, Head(walk[r]))
    /\ wlock' = NoConn
    /\ out' = [out EXCEPT ![r] = Append(@, Head(walk[r]))]
    /\ walk' = [walk EXCEPT ![r] = Tail(@)]
    /\ pc' = [pc EXCEPT ![r] = "mark"]
    /\ UNCHANGED <<count, verify, mode, pool, store0, cands, potential, pending,
                   liveList, ret, rows, selected, outcome, kLive, nFresh, wfail, confirmed>>
    /\ UNCHANGED <<faulty, net>>
    /\ UNCHANGED <<histVars, markVars, collectVars, normVars, filterVars>>

\* sample_new_domains returns out: selected = sample_new_domains(...)
SampleReturn(r) ==
    /\ pc[r] = "mark"
    /\ walk[r] = <<>> \/ Len(out[r]) >= count[r]
    /\ selected' = [selected EXCEPT ![r] = out[r]]
    /\ nFresh' = [nFresh EXCEPT ![r] = Len(out[r])]
    /\ out' = [out EXCEPT ![r] = <<>>]
    /\ walk' = [walk EXCEPT ![r] = <<>>]
    /\ potential' = [potential EXCEPT ![r] = <<>>]
    /\ pc' = [pc EXCEPT ![r] = "backfill"]
    /\ UNCHANGED <<count, verify, mode, pool, store0, cands, pending, liveList,
                   ret, rows, outcome, kLive, wfail, confirmed>>
    /\ UNCHANGED <<storeVars, histVars, markVars, collectVars, normVars,
                   filterVars>>

\* the invocation ends with the sequence sel and the outcome oc; the process
\* exits and its connection is closed
EndWith(r, sel, oc) ==
    /\ selected' = [selected EXCEPT ![r] = sel]
    /\ outcome' = [outcome EXCEPT ![r] = oc]
    /\ pc' = [pc EXCEPT ![r] = "done"]
    /\ wlock' = IF wlock = r THEN NoConn ELSE wlock

\* filter_live_domains(ds) is called on behalf of who
Dispatch(r, ds, who) ==
    /\ pending' = [pending EXCEPT ![r] = Elems(ds)]
    /\ liveList' = [liveList EXCEPT ![r] = <<>>]
    /\ ret' = [ret EXCEPT ![r] = who]
    /\ pc' = [pc EXCEPT ![r] = "verify"]

\* main(), "if len(selected) < args.count": the SELECT of the backfill, and
\* the final output when nothing is verified
Backfill(r) ==
    /\ pc[r] = "backfill"
    /\ IF Len(selected[r]) < count[r]
       THEN LET need == count[r] - Len(selected[r])
            IN  \E rws \in RandomRows(store, SampleLimit(need, verify[r])) :
                  /\ rows' = [rows EXCEPT ![r] = rws]
                  /\ IF VerifiesSample(verify[r], rws)
                     THEN /\ Dispatch(r, rws, "backfill")
                          /\ UNCHANGED <<selected, outcome, wlock>>
                     ELSE /\ EndWith(r, selected[r] \o Take(rws, need),
                                     FinalOutcome(selected[r] \o Take(rws, need)))
                          /\ UNCHANGED <<pending, liveList, ret>>
       ELSE /\ EndWith(r, selected[r], FinalOutcome(selected[r]))
            /\ UNCHANGED <<rows, pending, liveList, ret>>
    /\ UNCHANGED <<count, verify, mode, pool, store0, cands, potential, walk,
                   out, kLive, nFresh, wfail, confirmed>>
    /\ UNCHANGED <<store, faulty, net>>
    /\ UNCHANGED <<histVars, markVars, collectVars, normVars, filterVars>>

\* main(): selected.extend(cached_live[:need]) and the final output
BackfillVerified(r) ==
    /\ pc[r] = "verify"
    /\ BatchComplete(pending[r])
    /\ ret[r] = "backfill"
    /\ LET need == count[r] - Len(selected[r])
           sel == selected[r] \o Take(liveList[r], need)
       IN  EndWith(r, sel, FinalOutcome(sel))
    /\ liveList' = [liveList EXCEPT ![r] = <<>>]
    /\ ret' = [ret EXCEPT ![r] = "none"]
    /\ UNCHANGED <<count, verify, mode, pool, store0, cands, potential, pending,
                   walk, out, rows, kLive, nFresh, wfail, confirmed>>
    /\ UNCHANGED <<store, faulty, net>>
    /\ UNCHANGED <<histVars, markVars, collectVars, normVars, filterVars>>

\* main(), "if args.use_cache_only" and "if not candidates": the SELECT,
\* and the output when the store is empty or nothing is verified
FromStore(r) ==
    /\ pc[r] \in {"cache", "fallback"}
    /\ \E rws \in RandomRows(store, SampleLimit(count[r], verify[r])) :
         /\ rows' = [rows EXCEPT ![r] = rws]
         /\ IF rws = <<>>
            THEN /\ EndWith(r, <<>>, EmptyStoreOutcome(mode[r]))
                 /\ UNCHANGED <<pending, liveList, ret>>
            ELSE IF verify[r]
            THEN /\ Dispatch(r, rws, "store")
                 /\ UNCHANGED <<selected, outcome, wlock>>
            ELSE /\ EndWith(r, rws, "saved")
                 /\ UNCHANGED <<pending, liveList, ret>>
    /\ UNCHANGED <<count, verify, mode, pool, store0, cands, potential, walk,
                   out, kLive, nFresh, wfail, confirmed>>
    /\ UNCHANGED <<store, faulty, net>>
    /\ UNCHANGED <<histVars, markVars, collectVars, normVars, filterVars>>

\* main(): domains = filter_live_domains(domains)[:args.count], saved
StoreVerified(r) ==
    /\ pc[r] = "verify"
    /\ BatchComplete(pending[r])
    /\ ret[r] = "store"
    /\ EndWith(r, Take(liveList[r], count[r]), "saved")
    /\ liveList' = [liveList EXCEPT ![r] = <<>>]
    /\ ret' = [ret EXCEPT ![r] = "none"]
    /\ UNCHANGED <<count, verify, mode, pool, store0, cands, potential, pending,
                   walk, out, rows, kLive, nFresh, wfail, confirmed>>
    /\ UNCHANGED <<store, faulty, net>>
    /\ UNCHANGED <<histVars, markVars, collectVars, normVars, filterVars>>

----------------------------------------------------------------------------
(* collect_candidates, one suffix at a time.                               *)

CollectIdle ==
    /\ cPc = "idle"
    /\ cTlds = <<>>
    /\ cUp = <<>>
    /\ cIdx = 0
    /\ cPool = {}
    /\ cTrace = <<>>

\* the answer counts as a success: status 200 and a JSON list of objects
Succeeded(resp) == resp.kind = "json" /\ ~ParseRaises(resp.data)

\* one iteration of "for tld in tlds": fetch_from_crtsh(tld), with its query
\* and its delay, and pool.update(found)
FetchStep ==
    /\ cPc = "loop"
    /\ cIdx <= Len(cTlds)
    /\ LET tld == cTlds[cIdx]
           f == FetchFromCrtsh(cUp[tld])
       IN  /\ cPool' = PoolAfterFetch(cPool, cUp[tld])
           /\ cTrace' = cTrace \o <<[ev |-> "query", tld |-> tld]>>
                               \o (IF f.slept THEN <<[ev |-> "sleep", tld |-> tld]>>
                                   ELSE <<>>)
    /\ cIdx' = cIdx + 1
    /\ UNCHANGED <<cPc, cTlds, cUp>>
    /\ UNCHANGED <<storeVars, runVars, histVars, markVars, normVars,
                   filterVars>>

\* return pool
CollectReturn ==
    /\ cPc = "loop"
    /\ cIdx > Len(cTlds)
    /\ cPc' = "done"
    /\ UNCHANGED <<cTlds, cUp, cIdx, cPool, cTrace>>
    /\ UNCHANGED <<storeVars, runVars, histVars, markVars, normVars,
                   filterVars>>

----------------------------------------------------------------------------
(* The normalisation of fetch_from_crtsh, applied to one raw name and then  *)
(* to the name it produced.                                                *)

RawAlphabet == {"a", "A", ".", "*", " "}

RawNames == UNION {[1..n -> RawAlphabet] : n \in 0..MaxRawLen}

NormIdle ==
    /\ nPc = "idle"
    /\ nRaw = <<>>
    /\ nOnce = {}
    /\ nTwice = {}

\* the body of "for name in nv.splitlines()" on the raw name
NormOnce ==
    /\ nPc = "raw"
    /\ nOnce' = NormalizeName(nRaw)
    /\ nPc' = "once"
    /\ UNCHANGED <<nRaw, nTwice>>
    /\ UNCHANGED <<storeVars, runVars, histVars, markVars, collectVars,
                   filterVars>>

\* the same body on the name it accepted
NormTwice ==
    /\ nPc = "once"
    /\ nOnce # {}
    /\ nTwice' = UNION {NormalizeName(n) : n \in nOnce}
    /\ nPc' = "twice"
    /\ UNCHANGED <<nRaw, nOnce>>
    /\ UNCHANGED <<storeVars, runVars, histVars, markVars, collectVars,
                   filterVars>>

----------------------------------------------------------------------------
(* One call of filter_live_domains(domains): a future per domain, run by a  *)
(* pool of MAX_WORKERS threads and collected as they complete.             *)

FilterInputs ==
    {SelectSeq(<<D_ac, D_bd, D_ec>>, LAMBDA d : d \in S) :
       S \in SUBSET {D_ac, D_bd, D_ec}}

FilterIdle ==
    /\ fPc = "idle"
    /\ fInput = <<>>
    /\ fAnswer = <<>>
    /\ fState = <<>>
    /\ fResult = <<>>
    /\ fLive = <<>>

\* the futures a worker thread is running
Running == {d \in DOMAIN fState : fState[d] = "running"}

\* a free worker takes the oldest queued call of check_domain_live
ProbeStart(i) ==
    /\ fPc = "run"
    /\ i \in DOMAIN fInput
    /\ fState[fInput[i]] = "queued"
    /\ \A j \in 1..(i - 1) : fState[fInput[j]] # "queued"
    /\ Cardinality(Running) < MAX_WORKERS
    /\ fState' = [fState EXCEPT ![fInput[i]] = "running"]
    /\ UNCHANGED <<fPc, fInput, fAnswer, fResult, fLive>>
    /\ UNCHANGED <<storeVars, runVars, histVars, markVars, collectVars,
                   normVars>>

\* check_domain_live(domain) returns (domain, is_live, ...)
ProbeFinish(i) ==
    /\ fPc = "run"
    /\ i \in DOMAIN fInput
    /\ fState[fInput[i]] = "running"
    /\ fState' = [fState EXCEPT ![fInput[i]] = "finished"]
    /\ fResult' = [fResult EXCEPT ![fInput[i]] =
                     CheckDomainLive(fAnswer[fInput[i]].https,
                                     fAnswer[fInput[i]].http)]
    /\ UNCHANGED <<fPc, fInput, fAnswer, fLive>>
    /\ UNCHANGED <<storeVars, runVars, histVars, markVars, collectVars,
                   normVars>>

\* one iteration of "for future in as_completed(future_to_domain)"
ProbeCollect(i) ==
    /\ fPc = "run"
    /\ i \in DOMAIN fInput
    /\ fState[fInput[i]] = "finished"
    /\ fState' = [fState EXCEPT ![fInput[i]] = "collected"]
    /\ fLive' = IF fResult[fInput[i]] THEN Append(fLive, fInput[i]) ELSE fLive
    /\ UNCHANGED <<fPc, fInput, fAnswer, fResult>>
    /\ UNCHANGED <<storeVars, runVars, histVars, markVars, collectVars,
                   normVars>>

\* return live_domains
FilterReturn ==
    /\ fPc = "run"
    /\ \A d \in DOMAIN fState : fState[d] = "collected"
    /\ fPc' = "done"
    /\ UNCHANGED <<fInput, fAnswer, fState, fResult, fLive>>
    /\ UNCHANGED <<storeVars, runVars, histVars, markVars, collectVars,
                   normVars>>

----------------------------------------------------------------------------
(* Specifications.                                                         *)

StoreFresh ==
    /\ store = {}
    /\ wlock = NoConn
    /\ faulty = FALSE
    /\ net = {}

HistInit(n) ==
    /\ runsLeft = n
    /\ prevMode = "none"
    /\ prevResult = {}
    /\ overlap = FALSE

RunStep(r) ==
    \/ ScanStep(r)
    \/ ScanEnd(r)
    \/ ProbeDone(r)
    \/ MarkBegin(r)
    \/ MarkExecute(r)
    \/ MarkCommit(r)
    \/ SampleReturn(r)
    \/ Backfill(r)
    \/ BackfillVerified(r)
    \/ FromStore(r)
    \/ StoreVerified(r)

\* Invocations of main() one after the other on a store that starts empty.
Init ==
    /\ StoreFresh /\ RunIdle /\ HistInit(MaxRuns)
    /\ MarkIdle /\ CollectIdle /\ NormIdle /\ FilterIdle

Next == Start(1) \/ RunStep(1)

Spec == Init /\ [][Next]_vars

\* One invocation on a store that earlier invocations have filled.
AllStored == <<D_ac, D_bd, D_ec, D_fd>>

StoredLists == {SelectSeq(AllStored, LAMBDA d : d \in S) : S \in SUBSET Elems(AllStored)}

InitCached ==
    /\ store \in {StoreOf(ds) : ds \in StoredLists}
    /\ wlock = NoConn
    /\ faulty = FALSE
    /\ net = {}
    /\ RunIdle /\ HistInit(1) /\ MarkIdle /\ CollectIdle /\ NormIdle /\ FilterIdle

SpecCached == InitCached /\ [][Next]_vars

\* Two invocations that overlap, each started once with a count of at least
\* one and a pool of names that sample_new_domains does not filter out. The
\* process called 2 is the one that starts second, while the first is running.
InitConc ==
    /\ StoreFresh /\ RunIdle /\ HistInit(2)
    /\ MarkIdle /\ CollectIdle /\ NormIdle /\ FilterIdle

ConcStart(r) ==
    /\ pc[r] = "idle"
    /\ Start(r)
    /\ mode'[r] = "normal"
    /\ count'[r] >= 1
    /\ \A d \in pool'[r] : ~HasWeird(d)
    /\ r = 2 => pc[1] \notin {"idle", "done"}

ConcStep(r) ==
    \/ ScanStep(r)
    \/ ScanEnd(r)
    \/ ProbeDone(r)
    \/ MarkBegin(r)
    \/ MarkExecute(r)
    \/ MarkCommit(r)
    \/ SampleReturn(r)
    \/ Backfill(r)
    \/ BackfillVerified(r)

NextConc == \E r \in Runs : ConcStart(r) \/ ConcStep(r)

SpecConc == InitConc /\ [][NextConc]_vars

\* Invocations one after the other on a store that can fail.
InitFault ==
    /\ store = {}
    /\ wlock = NoConn
    /\ faulty = TRUE
    /\ net = {}
    /\ RunIdle /\ HistInit(MaxRuns) /\ MarkIdle /\ CollectIdle /\ NormIdle /\ FilterIdle

NextFault == Start(1) \/ RunStep(1) \/ ScanCrash(1)

SpecFault == InitFault /\ [][NextFault]_vars

\* Up to MaxCallers processes call mark_seen with one domain that the store
\* does not hold.
InitMark ==
    /\ mDomain \in {D_ac, D_bd}
    /\ mCallers \in {1..n : n \in 1..MaxCallers}
    /\ store \in {StoreOf(ds) : ds \in {l \in StoredLists : mDomain \notin Elems(l)}}
    /\ wlock = NoConn
    /\ faulty = FALSE
    /\ net = {}
    /\ mPc = [c \in mCallers |-> "call"]
    /\ mRet = [c \in mCallers |-> "none"]
    /\ RunIdle /\ HistInit(0) /\ CollectIdle /\ NormIdle /\ FilterIdle

NextMark == \E c \in 1..MaxCallers : CallerExecute(c) \/ CallerCommit(c)

SpecMark == InitMark /\ [][NextMark]_vars

\* collect_candidates on any suffix list against any answers.
InitCollect ==
    /\ cPc = "loop"
    /\ cTlds \in TldLists
    /\ cUp \in Upstreams
    /\ cIdx = 1
    /\ cPool = {}
    /\ cTrace = <<>>
    /\ StoreFresh /\ RunIdle /\ HistInit(0) /\ MarkIdle /\ NormIdle /\ FilterIdle

NextCollect == FetchStep \/ CollectReturn

SpecCollect == InitCollect /\ [][NextCollect]_vars

\* The normalisation applied twice to any raw name of at most MaxRawLen
\* characters.
InitNorm ==
    /\ nPc = "raw"
    /\ nRaw \in RawNames
    /\ nOnce = {}
    /\ nTwice = {}
    /\ StoreFresh /\ RunIdle /\ HistInit(0) /\ MarkIdle /\ CollectIdle /\ FilterIdle

NextNorm == NormOnce \/ NormTwice

SpecNorm == InitNorm /\ [][NextNorm]_vars

\* filter_live_domains on any list of distinct domains, each answering its
\* two protocols in any way.
InitFilter ==
    /\ fPc = "run"
    /\ fInput \in FilterInputs
    /\ fAnswer \in [Elems(fInput) -> [https : ProbeOutcomes, http : ProbeOutcomes]]
    /\ fState = [d \in Elems(fInput) |-> "queued"]
    /\ fResult = [d \in Elems(fInput) |-> FALSE]
    /\ fLive = <<>>
    /\ StoreFresh /\ RunIdle /\ HistInit(0) /\ MarkIdle /\ CollectIdle /\ NormIdle

NextFilter ==
    \/ \E i \in 1..3 : ProbeStart(i) \/ ProbeFinish(i) \/ ProbeCollect(i)
    \/ FilterReturn

SpecFilter == InitFilter /\ [][NextFilter]_vars

\* One invocation that samples a pool larger than its count, on a store that
\* earlier invocations have filled.
ScanStart ==
    /\ StartWith(1, WidePools)
    /\ mode'[1] = "normal"

NextScan == ScanStart \/ ConcStep(1)

SpecScan == InitCached /\ [][NextScan]_vars

----------------------------------------------------------------------------
(* The claims.                                                             *)

Done(r) == pc[r] = "done"

\* the entries of selected that sample_new_domains returned, and the entries
\* main() appended from the store
FreshPart(r) == SubSeq(selected[r], 1, nFresh[r])
FillPart(r) == SubSeq(selected[r], nFresh[r] + 1, Len(selected[r]))

\* the domains this invocation inserted
Inserted(r) == StoredDomains(store) \ store0[r]

CleanPool(r) == {d \in pool[r] : ~HasWeird(d)}

\* C1: of two invocations one after the other on the same store, each with a
\* candidate pool to sample from, no domain is returned by both.
C1_NoDuplicateEmission ==
    (Done(1) /\ mode[1] = "normal" /\ prevMode = "normal")
        => Elems(selected[1]) \cap prevResult = {}

\* C2: of the callers that call mark_seen with one domain that the store does
\* not hold, at most one is ever answered True and the store never holds two
\* rows of the domain or of its fingerprint; once all have returned, exactly
\* one was answered True, every other False, and the store holds one row.
C2_ExactlyOneInserts ==
    LET winners == {c \in mCallers : mRet[c] = "true"}
        recs == {rec \in store : rec.domain = mDomain}
        fps == {rec \in store : rec.fingerprint = Fingerprint(mDomain)}
    IN  /\ Cardinality(winners) <= 1
        /\ Cardinality(recs) <= 1
        /\ Cardinality(fps) <= 1
        /\ (mCallers # {} /\ \A c \in mCallers : mPc[c] = "done")
              => /\ Cardinality(winners) = 1
                 /\ \A c \in mCallers \ winners : mRet[c] = "false"
                 /\ Cardinality(recs) = 1
                 /\ Cardinality(fps) = 1

\* C2, its case: three callers have returned, one of them turned away by the
\* write lock and one by the UNIQUE constraint
C2_Witness ==
    /\ Cardinality(mCallers) = 3
    /\ \A c \in mCallers : mPc[c] = "done"
    /\ \E c \in mCallers : mRet[c] = "true"
    /\ \E c \in mCallers : mRet[c] = "false" /\ wlock = c
    /\ \E c \in mCallers : mRet[c] = "false" /\ wlock # c

\* C3: two invocations that overlap never both return the same domain.
C3_ConcurrentNoDuplicate ==
    (Done(1) /\ Done(2) /\ overlap)
        => Elems(selected[1]) \cap Elems(selected[2]) = {}

\* C4 as claimed: on an empty store, with a pool of at least count names and
\* verification off, the invocation returns exactly count domains, every one of
\* them inserted by it when it was appended.
C4_ExactCountFromEmptyStore ==
    (Done(1) /\ mode[1] # "cache" /\ ~verify[1] /\ store0[1] = {}
       /\ Cardinality(pool[1]) >= count[1])
        => /\ Len(selected[1]) = count[1]
           /\ nFresh[1] = Len(selected[1])
           /\ Elems(selected[1]) \subseteq Inserted(1)

\* C4 as amended: on an empty store, with a pool that holds at least count names
\* free of the characters sample_new_domains rejects, and verification off, the
\* invocation returns exactly count domains, every one of them inserted by it
\* when it was appended.
C4_ExactCountFromCleanPool ==
    (Done(1) /\ mode[1] # "cache" /\ ~verify[1] /\ store0[1] = {}
       /\ Cardinality(CleanPool(1)) >= count[1])
        => /\ Len(selected[1]) = count[1]
           /\ nFresh[1] = Len(selected[1])
           /\ Elems(selected[1]) \subseteq Inserted(1)

\* C4, its case: two domains were asked for and returned from a pool that also
\* holds a rejected name
C4_Witness ==
    /\ Done(1) /\ mode[1] = "normal" /\ ~verify[1] /\ store0[1] = {}
    /\ count[1] = 2
    /\ Cardinality(CleanPool(1)) >= count[1]
    /\ CleanPool(1) # pool[1]
    /\ Len(selected[1]) = 2

\* what C5 says of the entries of the result, whatever the size of the backfill
C5_Shape(r) ==
    /\ nFresh[r] = kLive[r]
    /\ Elems(FreshPart(r)) \subseteq Inserted(r)
    /\ Cardinality(Elems(FreshPart(r))) = nFresh[r]
    /\ Len(FillPart(r)) <= count[r] - kLive[r]
    /\ Elems(FillPart(r)) \subseteq StoredDomains(store)

C5_Case(r) ==
    Done(r) /\ mode[r] = "normal" /\ verify[r] /\ kLive[r] < count[r]

\* C5 as claimed: with verification on and k < count entries of potential
\* classified live, the result is k inserted entries followed by at most
\* count - k entries of the store, fewer than count - k only when the store
\* holds fewer than count - k live domains.
C5_BackfillShortOnlyIfStoreShort ==
    C5_Case(1)
        => /\ C5_Shape(1)
           /\ Len(FillPart(1)) < count[1] - kLive[1]
                 => Cardinality(StoredDomains(store) \cap net) < count[1] - kLive[1]

\* C5 as amended: with verification on and k < count entries of potential
\* classified live, the result is k inserted entries followed by at most
\* count - k entries of the store, which are live entries of a random sample of
\* (count - k) * 3 rows of the store (all rows, if it holds fewer), and fewer
\* than count - k only when that sample holds fewer than count - k live domains.
C5_BackfillShortOnlyIfSampleShort ==
    C5_Case(1)
        => /\ C5_Shape(1)
           /\ Len(rows[1]) = Min((count[1] - kLive[1]) * 3, Cardinality(store))
           /\ Elems(FillPart(1)) \subseteq Elems(rows[1]) \cap net
           /\ Len(FillPart(1)) < count[1] - kLive[1]
                 => Cardinality(Elems(rows[1]) \cap net) < count[1] - kLive[1]

\* C5, its case: one of two is fresh, the other one is backfilled from a store
\* that holds more rows than were sampled
C5_Witness ==
    /\ C5_Case(1)
    /\ count[1] = 2 /\ kLive[1] = 1
    /\ Len(FillPart(1)) = 1
    /\ Cardinality(store) > Len(rows[1])

\* C6: when an invocation has ended, already_seen answers True for every domain
\* it returned.
C6_ResultContained ==
    Done(1) => \A d \in Elems(selected[1]) : AlreadySeen(store, d)

\* C6, its case: a result that holds a fresh entry and a backfilled one
C6_Witness ==
    /\ Done(1) /\ mode[1] = "normal"
    /\ nFresh[1] >= 1
    /\ Len(selected[1]) > nFresh[1]

\* C7: in every branch of main() and for every count >= 0, the sequence
\* returned is no longer than count.
C7_LengthBounded ==
    \A r \in Runs : Len(selected[r]) <= count[r]

\* C7, its case: the cache-only branch with verification cuts a list of more
\* than count live rows down to count
C7_Witness ==
    /\ Done(1) /\ mode[1] = "cache" /\ verify[1]
    /\ count[1] >= 1
    /\ Cardinality(Elems(rows[1]) \cap net) > count[1]
    /\ Len(selected[1]) = count[1]

ArtifactWritten(r) == outcome[r] = "saved"
UnhandledError(r) == outcome[r] = "error"

\* C8: with an empty pool and an empty store the invocation ends with an empty
\* result and the advisory of the fallback branch; no file is written and no
\* exception escapes.
C8_ExhaustionSignalled ==
    (Done(1) /\ mode[1] # "cache" /\ pool[1] = {} /\ store0[1] = {})
        => /\ selected[1] = <<>>
           /\ outcome[1] = "db_empty_too"
           /\ ~ArtifactWritten(1)
           /\ ~UnhandledError(1)

\* C8, its case: the fallback branch has ended on an empty store
C8_Witness ==
    /\ Done(1) /\ mode[1] = "fallback" /\ pool[1] = {} /\ store0[1] = {}
    /\ count[1] >= 1
    /\ rows[1] = <<>>

\* C9: an invocation in which an INSERT failed with a store error ends in an
\* error and returns nothing.
C9_StoreFailureIsFatal ==
    (Done(1) /\ wfail[1]) => (UnhandledError(1) /\ selected[1] = <<>>)

\* the suffixes queried, in order
Queried == [i \in DOMAIN SelectSeq(cTrace, LAMBDA e : e.ev = "query") |->
              SelectSeq(cTrace, LAMBDA e : e.ev = "query")[i].tld]

\* C10: collect_candidates queries every suffix of its list, in order, whatever
\* the answers, and returns the union of the names of the suffixes whose answer
\* was a success.
C10_FailureIsolation ==
    cPc = "done"
        => /\ Queried = cTlds
           /\ cPool = UNION {ParseEntries(cUp[cTlds[i]].data) :
                               i \in {j \in DOMAIN cTlds : Succeeded(cUp[cTlds[j]])}}

\* C10, its case: a suffix that failed is followed by one that succeeded, and
\* the pool holds the names of the latter
C10_Witness ==
    /\ cPc = "done"
    /\ \E i, j \in DOMAIN cTlds :
         /\ i < j
         /\ ~Succeeded(cUp[cTlds[i]])
         /\ Succeeded(cUp[cTlds[j]])
         /\ ParseEntries(cUp[cTlds[j]].data) # {}
    /\ cPool # {}

\* C11: the normalisation is idempotent: applied to a name it accepted, it
\* accepts it again and returns it unchanged.
C11_NormalizationIdempotent ==
    nPc = "twice" => nTwice = nOnce

\* C12: no domain appears twice in the sequence an invocation returns; the
\* backfill never appends a domain the invocation returned as fresh.
C12_NoRepeatInResult ==
    Done(1) => Cardinality(Elems(selected[1])) = Len(selected[1])

\* C13: with verification on, in every branch of main(), every domain an
\* invocation returns was classified live by a probe of that invocation.
C13_ReturnedWereProbedLive ==
    \A r \in Runs :
      (Done(r) /\ verify[r]) => Elems(selected[r]) \subseteq confirmed[r]

\* C13, its case: a verified result of a fresh entry and a backfilled one
C13_Witness ==
    /\ Done(1) /\ verify[1] /\ mode[1] = "normal"
    /\ nFresh[1] >= 1
    /\ Len(selected[1]) > nFresh[1]
    /\ Len(rows[1]) > Len(FillPart(1))

\* what C14 says of potential in every state
C14_Bounded ==
    \A r \in Runs :
      /\ Len(potential[r]) <= count[r] * (IF verify[r] THEN 3 ELSE 1)
      /\ \A i \in DOMAIN potential[r] : \A j \in DOMAIN potential[r][i] :
           potential[r][i][j] \notin {" ", "<", ">", "\\", "\"", "'"}

\* what C14 says of every step that makes potential longer
C14_Step ==
    \A r \in Runs :
      Len(potential'[r]) > Len(potential[r])
        => /\ Len(potential'[r]) = Len(potential[r]) + 1
           /\ SubSeq(potential'[r], 1, Len(potential[r])) = potential[r]
           /\ potential'[r][Len(potential'[r])] \notin StoredDomains(store)
           /\ potential'[r][Len(potential'[r])] \in pool[r]

\* C14: potential never holds more than count * 3 entries with verification
\* and count without, and every entry is a candidate that was absent from the
\* store when it was examined and holds none of the disallowed characters.
C14_PotentialBoundedAndUnseen ==
    []C14_Bounded /\ [][C14_Step]_vars

\* C14, its case: with verification the loop stops at three entries for a
\* count of one, with a candidate left and a stored candidate skipped
C14_Witness ==
    /\ pc[1] = "scan" /\ verify[1] /\ count[1] = 1
    /\ Len(potential[1]) = 3
    /\ cands[1] # {}
    /\ \E d \in pool[1] \ cands[1] : d \in StoredDomains(store)

\* C15: while a probe of a batch is in flight the invocation is inside
\* filter_live_domains, and it has inserted nothing and appended nothing for
\* that batch: the marking loop starts only when every probe has completed.
C15_BarrierBeforeCommit ==
    \A r \in Runs :
      pending[r] # {}
        => /\ pc[r] = "verify"
           /\ ret[r] = "mark"
                => /\ out[r] = <<>>
                   /\ selected[r] = <<>>
                   /\ StoredDomains(store) = store0[r]
           /\ ret[r] = "backfill" => Len(selected[r]) = nFresh[r]
           /\ ret[r] = "store" => selected[r] = <<>>

\* C15, its case: two probes were dispatched, both have completed, one of
\* them dead, and the live domain has been inserted
C15_Witness ==
    /\ pc[1] = "mark" /\ verify[1]
    /\ Len(potential[1]) = 2
    /\ Cardinality(confirmed[1]) = 1
    /\ Len(out[1]) = 1
    /\ pending[1] = {}

\* C16: filter_live_domains returns the domains of its input that answer 200
\* on https, or else on http, each once, in whatever order the probes
\* complete, and never a domain that is not in its input.
C16_ExactlyTheLive ==
    LET live == {d \in Elems(fInput) :
                   \/ fAnswer[d].https = "200"
                   \/ fAnswer[d].https # "200" /\ fAnswer[d].http = "200"}
    IN  /\ Elems(fLive) \subseteq live
        /\ Cardinality(Elems(fLive)) = Len(fLive)
        /\ fPc = "done" => Elems(fLive) = live

\* C16, its case: of three domains one answers on https, one raises on https
\* and answers on http, one raises on both, and the last of the input is the
\* first of the output
C16_Witness ==
    /\ fPc = "done" /\ Len(fInput) = 3
    /\ \E d \in Elems(fInput) : fAnswer[d].https = "200"
    /\ \E d \in Elems(fInput) :
         fAnswer[d].https = "error" /\ fAnswer[d].http = "200"
    /\ \E d \in Elems(fInput) :
         fAnswer[d].https = "error" /\ fAnswer[d].http = "error"
    /\ Len(fLive) = 2
    /\ fLive[1] = fInput[3]

\* what C17 says of every state of the marking loop
C17_NoConflictAppended ==
    \A r \in Runs :
      /\ Len(out[r]) <= count[r]
      /\ Cardinality(Elems(out[r])) = Len(out[r])
      /\ pc[r] = "commit"
           => /\ Head(walk[r]) \notin StoredDomains(store)
              /\ Head(walk[r]) \notin Elems(out[r])

\* what C17 says of the steps of the marking loop: a refused insert drops the
\* domain for good and leaves out and the store alone, and the loop ends only
\* with count entries or with the list walked to its end
C17_Step ==
    \A r \in Runs :
      /\ (pc[r] = "mark" /\ pc'[r] = "mark" /\ walk'[r] # walk[r])
           => /\ walk'[r] = Tail(walk[r])
              /\ Head(walk[r]) \notin Elems(walk'[r])
              /\ out'[r] = out[r]
              /\ store' = store
      /\ (pc[r] = "commit" /\ pc'[r] = "mark")
           => /\ out'[r] = Append(out[r], Head(walk[r]))
              /\ walk'[r] = Tail(walk[r])
      /\ (pc[r] = "mark" /\ pc'[r] = "backfill")
           => /\ walk[r] = <<>> \/ Len(out[r]) = count[r]
              /\ selected'[r] = out[r]

\* C17: in the marking loop a domain whose insert is refused is not appended,
\* is not tried again and does not count; the loop goes on with the rest of
\* the list until count inserts have succeeded or the list is at its end.
C17_ConflictSkipped ==
    []C17_NoConflictAppended /\ [][C17_Step]_vars

\* C17, its case: of the list a.c, b.d the first was inserted by the other
\* invocation after this one examined it; it was skipped and the second
\* inserted
C17_Witness ==
    /\ overlap /\ ~verify[2] /\ count[2] = 2
    /\ pc[2] = "mark"
    /\ potential[2] = <<D_ac, D_bd>>
    /\ walk[2] = <<>>
    /\ out[2] = <<D_bd>>
    /\ D_ac \in StoredDomains(store)

\* what C18 says of every state: the rows are those the store held when the
\* invocation began and those of the fresh entries it has appended
C18_OnlyFreshInserted ==
    /\ store0[1] \subseteq StoredDomains(store)
    /\ pc[1] \in {"mark", "commit"}
         => StoredDomains(store) \ store0[1] = Elems(out[1])
    /\ pc[1] \in {"backfill", "verify", "done"}
         => StoredDomains(store) \ store0[1]
              = Elems(SubSeq(selected[1], 1, nFresh[1]))
    /\ (pc[1] = "done" /\ mode[1] \in {"cache", "fallback"})
         => StoredDomains(store) = store0[1]

\* what C18 says of every step: no row is removed or changed, and a row is
\* added only together with the appending of its domain to out
C18_Step ==
    /\ store \subseteq store'
    /\ store' # store
         => \E rec \in store' \ store :
              /\ store' = store \cup {rec}
              /\ out'[1] = Append(out[1], rec.domain)

\* C18: an invocation changes the store only by inserting the domains it
\* returns as fresh entries; dead candidates, live candidates beyond count and
\* backfilled entries are not inserted, the cache-only and fallback branches
\* leave the store as it was, and no row is removed or modified.
C18_StoreFrame ==
    []C18_OnlyFreshInserted /\ [][C18_Step]_vars

\* C18, its case: a verified invocation has returned a fresh entry and a
\* backfilled one, and left a candidate of its pool out of the store
C18_Witness ==
    /\ Done(1) /\ verify[1] /\ mode[1] = "normal"
    /\ nFresh[1] = 1
    /\ Len(selected[1]) = 2
    /\ \E d \in CleanPool(1) : d \notin StoredDomains(store)

\* C19: a delay is slept after every query before the next one is issued,
\* whatever the query's outcome.
C19_DelayBetweenQueries ==
    \A i \in DOMAIN cTrace :
      (cTrace[i].ev = "query" /\ i < Len(cTrace)) => cTrace[i + 1].ev = "sleep"

====
